---- MODULE Spec2Model ----
(***************************************************************************)
(* Model of src/Expensetracker.py: a menu loop over an SQLite table        *)
(* expenses(id INTEGER PRIMARY KEY AUTOINCREMENT, date, category,          *)
(* description, amount).                                                   *)
(*                                                                         *)
(* Strings the program inspects character by character (dates, months,    *)
(* numbers typed by the user) are sequences of one-character strings.      *)
(* Strings it only compares or stores (menu choice, category, description) *)
(* are TLA+ strings.  Amounts are integers: the REAL column is modelled on *)
(* whole numbers, where SQLite's SUM is exact.  Typed ids are within the   *)
(* range of SQLite's INTEGER.                                              *)
(***************************************************************************)
EXTENDS Integers, Sequences, FiniteSets, TLC

\* Bound of the model: the AUTOINCREMENT counter does not pass MaxSeq.
MaxSeq == 2

VARIABLES
    table,        \* the rows of expenses: a function from live id to row
    seq,          \* sqlite_sequence: the largest id ever assigned
    tableExists,  \* whether CREATE TABLE has run on expenses.db
    openConns,    \* number of open connections to expenses.db
    dbLog,        \* connection events of the last step's store call
    pc,           \* position of menu(): which input() it is blocked on
    choice,       \* menu()'s variable choice: the last choice typed
    locals,       \* menu()'s variables bound so far in this iteration
    call,         \* the store function the last step called, with arguments
    out,          \* what the last step printed
    err,          \* the exception that ended menu(), or "none"
    issued,       \* ids in the order INSERT assigned them (history)
    padYear       \* platform: whether strftime("%Y") zero-pads to 4 digits

vars == <<table, seq, tableExists, openConns, dbLog, pc, choice, locals, call,
          out, err, issued, padYear>>

----------------------------------------------------------------------------
(* Python string and number helpers *)

Digits == <<"0", "1", "2", "3", "4", "5", "6", "7", "8", "9">>

IsDigit(c) == \E i \in 1..10 : Digits[i] = c

DigitVal(c) == (CHOOSE i \in 1..10 : Digits[i] = c) - 1

IsSpace(c) == c = " "

RECURSIVE lstrip(_)
lstrip(s) ==
    IF s # <<>> /\ IsSpace(Head(s)) THEN lstrip(Tail(s)) ELSE s

RECURSIVE rstrip(_)
rstrip(s) ==
    IF s # <<>> /\ IsSpace(s[Len(s)]) THEN rstrip(SubSeq(s, 1, Len(s) - 1)) ELSE s

\* str.strip()
strip(s) == rstrip(lstrip(s))

RECURSIVE DigitsToNat(_)
DigitsToNat(s) ==
    IF s = <<>> THEN 0
    ELSE 10 * DigitsToNat(SubSeq(s, 1, Len(s) - 1)) + DigitVal(s[Len(s)])

AllDigits(s) == s # <<>> /\ \A i \in 1..Len(s) : IsDigit(s[i])

\* Decimal literal "[+-]digits" surrounded by optional blanks: <<n>>, or <<>>
\* where Python raises ValueError.
ParseSigned(s) ==
    LET t == strip(s)
        signed == t # <<>> /\ Head(t) \in {"+", "-"}
        body == IF signed THEN Tail(t) ELSE t
    IN  IF ~AllDigits(body) THEN <<>>
        ELSE IF signed /\ Head(t) = "-" THEN << -DigitsToNat(body) >>
        ELSE << DigitsToNat(body) >>

\* float(input(...)) on the literals of AmountInputs
float(s) == ParseSigned(s)

\* int(input(...)) on the literals of IdInputs
int(s) == ParseSigned(s)

RECURSIVE NatToDigits(_)
NatToDigits(n) ==
    IF n < 10 THEN <<Digits[n + 1]>>
    ELSE Append(NatToDigits(n \div 10), Digits[(n % 10) + 1])

RECURSIVE ZeroPad(_, _)
ZeroPad(s, w) == IF Len(s) >= w THEN s ELSE ZeroPad(<<"0">> \o s, w)

----------------------------------------------------------------------------
(* datetime.strptime(raw, "%Y-%m-%d") and .strftime("%Y-%m-%d") *)

IsLeap(y) == (y % 4 = 0) /\ ((y % 100 # 0) \/ (y % 400 = 0))

DaysInMonth(y, m) ==
    IF m = 2 THEN (IF IsLeap(y) THEN 29 ELSE 28)
    ELSE IF m \in {4, 6, 9, 11} THEN 30 ELSE 31

At(s, i) == IF i >= 1 /\ i <= Len(s) THEN s[i] ELSE "EOS"

\* %m is the regex 1[0-2]|0[1-9]|[1-9] tried at position p: the set of
\* lengths it can match there, in the order the alternatives are tried.
MonthMatch(s, p) ==
    LET a == At(s, p)
        b == At(s, p + 1)
    IN  (IF a = "1" /\ b \in {"0", "1", "2"} THEN <<2>> ELSE <<>>)
        \o (IF a = "0" /\ IsDigit(b) /\ b # "0" THEN <<2>> ELSE <<>>)
        \o (IF IsDigit(a) /\ a # "0" THEN <<1>> ELSE <<>>)

\* %d is the regex 3[01]|[12]\d|0[1-9]|[1-9]| [1-9] tried at position p: the
\* length of the first alternative that matches, 0 when none does.
DayMatch(s, p) ==
    LET a == At(s, p)
        b == At(s, p + 1)
    IN  IF a = "3" /\ b \in {"0", "1"} THEN 2
        ELSE IF a \in {"1", "2"} /\ IsDigit(b) THEN 2
        ELSE IF a = "0" /\ IsDigit(b) /\ b # "0" THEN 2
        ELSE IF IsDigit(a) /\ a # "0" THEN 1
        ELSE IF a = " " /\ IsDigit(b) /\ b # "0" THEN 2
        ELSE 0

\* The month lengths after which the regex can go on: a "-" and a day.
MonthChoices(s) ==
    LET ms == MonthMatch(s, 6)
    IN  SelectSeq(ms, LAMBDA n : At(s, 6 + n) = "-" /\ DayMatch(s, 7 + n) > 0)

\* <<year, month, day>>, or <<>> where strptime raises ValueError.
strptime(s) ==
    IF ~(Len(s) >= 4 /\ AllDigits(SubSeq(s, 1, 4)) /\ At(s, 5) = "-") THEN <<>>
    ELSE IF MonthChoices(s) = <<>> THEN <<>>
    ELSE LET n == Head(MonthChoices(s))
             k == DayMatch(s, 7 + n)
             y == DigitsToNat(SubSeq(s, 1, 4))
             m == DigitsToNat(SubSeq(s, 6, 5 + n))
             d == DigitsToNat(lstrip(SubSeq(s, 7 + n, 6 + n + k)))
         IN  IF 6 + n + k # Len(s) THEN <<>>         \* unconverted data remains
             ELSE IF y < 1 THEN <<>>                 \* year 0 is out of range
             ELSE IF d > DaysInMonth(y, m) THEN <<>> \* day is out of range
             ELSE <<y, m, d>>

\* "%Y-%m-%d" of a parsed date.  %Y is the C library's: zero-padded to four
\* digits on some platforms, the bare decimal number on others.
strftime(ymd, pad) ==
    (IF pad THEN ZeroPad(NatToDigits(ymd[1]), 4) ELSE NatToDigits(ymd[1]))
    \o <<"-">> \o ZeroPad(NatToDigits(ymd[2]), 2)
    \o <<"-">> \o ZeroPad(NatToDigits(ymd[3]), 2)

\* One pass of the loop of get_valid_date on the typed line: <<date>> when it
\* returns, <<>> when it prints a message and prompts again.
get_valid_date(line, pad) ==
    LET raw == strip(line)
    IN  IF Len(raw) # 10 \/ raw[5] # "-" \/ raw[8] # "-" THEN <<>>
        ELSE IF strptime(raw) = <<>> THEN <<>>
        ELSE << strftime(strptime(raw), pad) >>

----------------------------------------------------------------------------
(* What the user may type *)

Str10(a, b, c, d, e, f, g, h, i, j) == <<a, b, c, d, e, f, g, h, i, j>>

Choices == {"1", "2", "3", "4", "5", "6", "7", "8", "9", "0", " 1", "x", ""}

DateInputs ==
    { Str10("2", "0", "2", "5", "-", "0", "8", "-", "0", "1"),
      Str10("2", "0", "2", "5", "-", "0", "9", "-", "0", "1"),
      Str10("2", "0", "2", "5", "-", "0", "8", "-", " ", "1"),
      <<" ">> \o Str10("2", "0", "2", "5", "-", "0", "8", "-", "0", "1") \o <<" ">>,
      Str10("0", "9", "9", "9", "-", "0", "1", "-", "0", "1"),
      Str10("2", "0", "2", "5", "/", "0", "8", "/", "0", "3"),
      Str10("2", "0", "2", "5", "-", "1", "3", "-", "0", "1"),
      Str10("2", "0", "2", "5", "-", "0", "2", "-", "2", "9"),
      Str10("2", "0", "2", "5", "-", "0", "8", "-", "3", "2"),
      Str10("0", "0", "0", "0", "-", "0", "1", "-", "0", "1"),
      <<"2", "0", "2", "5", "-", "8", "-", "3">>,
      <<>> }

MonthInputs ==
    { <<"2", "0", "2", "5", "-", "0", "8">>,
      <<"2", "0", "2", "5", "-", "0", "9">>,
      <<" ", "2", "0", "2", "5", "-", "0", "8", " ">>,
      <<"9", "9", "9", "-", "0", "1", "-">>,
      <<"0", "9", "9", "9", "-", "0", "1">>,
      <<"2", "0", "2", "5", "-", "8">> }

AmountInputs ==
    { <<"5", "0">>, <<"1", "0", "0">>, <<"-", "5", "0">>, <<" ", "5", "0">>,
      <<"a", "b", "c">>, <<>> }

IdInputs == { <<"1">>, <<"2">>, <<"3">>, <<" ", "2">>, <<"x">>, <<>> }

Categories == {"Food", "Travel"}

Descriptions == {"lunch", "bus"}

----------------------------------------------------------------------------
(* SQL over the table *)

Ids == DOMAIN table

Row(i) == [id |-> i] @@ table[i]

MinOf(S) == CHOOSE i \in S : \A j \in S : i <= j

MaxOf(S) == CHOOSE i \in S : \A j \in S : i >= j

\* Rows in the order a scan of the rowid B-tree yields them: ascending id.
RECURSIVE Scan(_)
Scan(S) ==
    IF S = {} THEN <<>> ELSE <<Row(MinOf(S))>> \o Scan(S \ {MinOf(S)})

\* SELECT * FROM expenses
SelectAll == Scan(Ids)

RECURSIVE Total(_)
Total(S) ==
    IF S = {} THEN 0 ELSE table[MinOf(S)].amount + Total(S \ {MinOf(S)})

\* SELECT SUM(amount) over the rows S: <<>> (NULL) when there is no row.
SqlSum(S) == IF S = {} THEN <<>> ELSE << Total(S) >>

\* Mutant of substr7: substr(x, 0, 7), which SQLite cuts to six characters.
substr7_ZeroBased(x) == SubSeq(x, 1, IF Len(x) < 6 THEN Len(x) ELSE 6)

\* substr(x, 1, 7)
substr7(x) == SubSeq(x, 1, IF Len(x) < 7 THEN Len(x) ELSE 7)

\* Mutant of OrZero: `total if total > 0 else 0`.
OrZero_Positive(total) ==
    IF total = <<>> THEN 0 ELSE IF total[1] > 0 THEN total[1] ELSE 0

\* Python's `total if total else 0` on a SUM result
OrZero(total) == IF total = <<>> THEN 0 ELSE IF total[1] = 0 THEN 0 ELSE total[1]

\* Mutant of NextId: INTEGER PRIMARY KEY without AUTOINCREMENT, one more than
\* the largest id in the table.
NextId_NoAutoincrement == IF Ids = {} THEN 1 ELSE MaxOf(Ids) + 1

\* The id AUTOINCREMENT gives the next INSERT.
NextId == (IF Ids = {} \/ seq >= MaxOf(Ids) THEN seq ELSE MaxOf(Ids)) + 1

sqlite3_connect(n) == n + 1

\* Mutant of conn_close: the connection is never closed.
conn_close_Leak(n) == n

conn_close(n) == n - 1

Write == <<"connect", "execute", "commit", "close">>

Read == <<"connect", "execute", "close">>

Session(log) ==
    /\ openConns' = conn_close(sqlite3_connect(openConns))
    /\ dbLog' = log

NoSession == UNCHANGED openConns /\ dbLog' = <<>>

----------------------------------------------------------------------------
(* The store functions *)

db == <<table, seq, tableExists, issued>>

\* CREATE TABLE IF NOT EXISTS expenses (...)
create_table ==
    /\ tableExists' = TRUE
    /\ table' = IF tableExists THEN table ELSE <<>>
    /\ seq' = IF tableExists THEN seq ELSE 0
    /\ UNCHANGED issued
    /\ Session(Write)

\* INSERT INTO expenses (date, category, description, amount) VALUES (?,?,?,?)
add_expense(date, category, description, amount) ==
    /\ table' = [i \in Ids \cup {NextId} |->
                    IF i = NextId
                    THEN [date |-> date, category |-> category,
                          description |-> description, amount |-> amount]
                    ELSE table[i]]
    /\ seq' = NextId
    /\ issued' = Append(issued, NextId)
    /\ UNCHANGED tableExists
    /\ Session(Write)

\* SELECT * FROM expenses, then the listing
view_expenses ==
    /\ out' = IF SelectAll = <<>> THEN <<"No expenses recorded.">>
              ELSE <<"rows", SelectAll>>
    /\ UNCHANGED db
    /\ Session(Read)

\* SELECT SUM(amount) FROM expenses
total_expense ==
    /\ out' = <<"Total expense", OrZero(SqlSum(Ids))>>
    /\ UNCHANGED db
    /\ Session(Read)

\* Mutant of delete_expense: DELETE FROM expenses WHERE id>=?
delete_expense_From(id) ==
    /\ table' = [i \in {j \in Ids : j < id} |-> table[i]]
    /\ UNCHANGED <<seq, tableExists, issued>>
    /\ Session(Write)

\* DELETE FROM expenses WHERE id=?
delete_expense(id) ==
    /\ table' = [i \in {j \in Ids : j # id} |-> table[i]]
    /\ UNCHANGED <<seq, tableExists, issued>>
    /\ Session(Write)

\* Mutant of update_expense: the UPDATE without its WHERE clause.
update_expense_NoWhere(id, date, category, description, amount) ==
    /\ table' = [i \in Ids |->
                    [date |-> date, category |-> category,
                     description |-> description, amount |-> amount]]
    /\ UNCHANGED <<seq, tableExists, issued>>
    /\ Session(Write)

\* UPDATE expenses SET date=?, category=?, description=?, amount=? WHERE id=?
update_expense(id, date, category, description, amount) ==
    /\ table' = [i \in Ids |->
                    IF i = id
                    THEN [date |-> date, category |-> category,
                          description |-> description, amount |-> amount]
                    ELSE table[i]]
    /\ UNCHANGED <<seq, tableExists, issued>>
    /\ Session(Write)

\* The rows of SELECT SUM(amount) ... WHERE substr(date,1,7)=?
MonthRows(month) == {i \in Ids : substr7(table[i].date) = month}

\* monthly_expense() from the typed line on
monthly_expense(line) ==
    LET month == strip(line)
    IN  /\ out' = <<"Total expense for", month, OrZero(SqlSum(MonthRows(month)))>>
        /\ UNCHANGED db
        /\ Session(Read)

\* Mutant of GroupByCategory: SELECT category, amount ... GROUP BY category,
\* the bare column of one row of each group.
GroupByCategory_Bare ==
    [c \in {table[i].category : i \in Ids} |->
        table[MaxOf({i \in Ids : table[i].category = c})].amount]

\* SELECT category, SUM(amount) FROM expenses GROUP BY category, as a
\* function from category to sum
GroupByCategory ==
    [c \in {table[i].category : i \in Ids} |->
        Total({i \in Ids : table[i].category = c})]

\* plot_category_expenses(): the message, or the bars handed to plt.bar
plot_category_expenses ==
    /\ out' = IF DOMAIN GroupByCategory = {} THEN <<"No expenses to display.">>
              ELSE <<"bars", GroupByCategory>>
    /\ UNCHANGED db
    /\ Session(Read)

----------------------------------------------------------------------------
(* menu() *)

Init ==
    /\ table = <<>>
    /\ seq = 0
    /\ tableExists = FALSE
    /\ openConns = 0
    /\ dbLog = <<>>
    /\ pc = "start"
    /\ choice = "unbound"
    /\ locals = <<>>
    /\ call = <<>>
    /\ out = <<>>
    /\ err = "none"
    /\ issued = <<>>
    /\ padYear \in BOOLEAN

\* Mutant of Dispatch: the else branch leaves the loop.
Dispatch_ExitOnInvalid(c) ==
    IF c = "1" THEN "add"
    ELSE IF c = "2" THEN "view"
    ELSE IF c = "3" THEN "total"
    ELSE IF c = "4" THEN "delete"
    ELSE IF c = "5" THEN "update"
    ELSE IF c = "6" THEN "monthly"
    ELSE IF c = "7" THEN "plot"
    ELSE "exit"

\* The if/elif chain on the typed choice
Dispatch(c) ==
    IF c = "1" THEN "add"
    ELSE IF c = "2" THEN "view"
    ELSE IF c = "3" THEN "total"
    ELSE IF c = "4" THEN "delete"
    ELSE IF c = "5" THEN "update"
    ELSE IF c = "6" THEN "monthly"
    ELSE IF c = "7" THEN "plot"
    ELSE IF c = "8" THEN "exit"
    ELSE "invalid"

\* A step that only reads input: no store call
Prompted(next, bound, printed) ==
    /\ pc' = next
    /\ locals' = bound
    /\ out' = printed
    /\ call' = <<>>
    /\ NoSession
    /\ UNCHANGED <<db, err, padYear>>

\* An uncaught exception leaves menu()
Raise(e) ==
    /\ pc' = "crashed"
    /\ err' = e
    /\ locals' = <<>>
    /\ out' = <<"Traceback", e>>
    /\ call' = <<>>
    /\ NoSession
    /\ UNCHANGED <<db, padYear>>

\* The iteration ends; the loop is back at input("Enter choice: ")
Looped(called) ==
    /\ pc' = "menu"
    /\ locals' = <<>>
    /\ call' = called
    /\ UNCHANGED <<err, padYear>>

Start ==
    /\ pc = "start"
    /\ create_table
    /\ Looped(<<"create_table">>)
    /\ out' = <<>>
    /\ UNCHANGED choice

ChooseAdd ==
    /\ pc = "menu"
    /\ seq < MaxSeq
    /\ \E c \in Choices :
        /\ choice' = c
        /\ Dispatch(c) = "add"
        /\ Prompted("add_date", <<>>, <<>>)

ChooseView ==
    /\ pc = "menu"
    /\ \E c \in Choices :
        /\ choice' = c
        /\ Dispatch(c) = "view"
        /\ view_expenses
        /\ Looped(<<"view_expenses">>)

ChooseTotal ==
    /\ pc = "menu"
    /\ \E c \in Choices :
        /\ choice' = c
        /\ Dispatch(c) = "total"
        /\ total_expense
        /\ Looped(<<"total_expense">>)

ChooseDelete ==
    /\ pc = "menu"
    /\ \E c \in Choices :
        /\ choice' = c
        /\ Dispatch(c) = "delete"
        /\ Prompted("del_id", <<>>, <<>>)

ChooseUpdate ==
    /\ pc = "menu"
    /\ \E c \in Choices :
        /\ choice' = c
        /\ Dispatch(c) = "update"
        /\ Prompted("upd_id", <<>>, <<>>)

ChooseMonthly ==
    /\ pc = "menu"
    /\ \E c \in Choices :
        /\ choice' = c
        /\ Dispatch(c) = "monthly"
        /\ Prompted("month", <<>>, <<>>)

ChoosePlot ==
    /\ pc = "menu"
    /\ \E c \in Choices :
        /\ choice' = c
        /\ Dispatch(c) = "plot"
        /\ plot_category_expenses
        /\ Looped(<<"plot_category_expenses">>)

ChooseExit ==
    /\ pc = "menu"
    /\ \E c \in Choices :
        /\ choice' = c
        /\ Dispatch(c) = "exit"
        /\ Prompted("exited", <<>>, <<"Exiting the program.">>)

ChooseInvalid ==
    /\ pc = "menu"
    /\ \E c \in Choices :
        /\ choice' = c
        /\ Dispatch(c) = "invalid"
        /\ Prompted("menu", <<>>, <<"Invalid choice, try again.">>)

\* date = get_valid_date(): one typed line
InputDate ==
    /\ pc \in {"add_date", "upd_date"}
    /\ UNCHANGED choice
    /\ \E line \in DateInputs :
        LET got == get_valid_date(line, padYear)
        IN  IF got = <<>>
            THEN Prompted(pc, locals, <<"Invalid date">>)
            ELSE Prompted(IF pc = "add_date" THEN "add_category" ELSE "upd_category",
                          IF pc = "add_date" THEN [date |-> got[1]]
                          ELSE [id |-> locals.id, date |-> got[1]],
                          <<>>)

\* category = input(...)
InputCategory ==
    /\ pc \in {"add_category", "upd_category"}
    /\ UNCHANGED choice
    /\ \E c \in Categories :
        Prompted(IF pc = "add_category" THEN "add_description" ELSE "upd_description",
                 IF pc = "add_category"
                 THEN [date |-> locals.date, category |-> c]
                 ELSE [id |-> locals.id, date |-> locals.date, category |-> c],
                 <<>>)

\* description = input(...)
InputDescription ==
    /\ pc \in {"add_description", "upd_description"}
    /\ UNCHANGED choice
    /\ \E d \in Descriptions :
        Prompted(IF pc = "add_description" THEN "add_amount" ELSE "upd_amount",
                 IF pc = "add_description"
                 THEN [date |-> locals.date, category |-> locals.category,
                       description |-> d]
                 ELSE [id |-> locals.id, date |-> locals.date,
                       category |-> locals.category, description |-> d],
                 <<>>)

\* amount = float(input(...)); add_expense(...); print
InputAmountAdd ==
    /\ pc = "add_amount"
    /\ UNCHANGED choice
    /\ \E s \in AmountInputs :
        IF float(s) = <<>> THEN Raise("ValueError")
        ELSE /\ add_expense(locals.date, locals.category, locals.description,
                            float(s)[1])
             /\ Looped(<<"add_expense", locals.date, locals.category,
                         locals.description, float(s)[1]>>)
             /\ out' = <<"Expense added successfully.">>

\* id = int(input(...)); delete_expense(id); print
InputIdDelete ==
    /\ pc = "del_id"
    /\ UNCHANGED choice
    /\ \E s \in IdInputs :
        IF int(s) = <<>> THEN Raise("ValueError")
        ELSE /\ delete_expense(int(s)[1])
             /\ Looped(<<"delete_expense", int(s)[1]>>)
             /\ out' = <<"Expense deleted successfully.">>

\* id = int(input(...)) of choice 5
InputIdUpdate ==
    /\ pc = "upd_id"
    /\ UNCHANGED choice
    /\ \E s \in IdInputs :
        IF int(s) = <<>> THEN Raise("ValueError")
        ELSE Prompted("upd_date", [id |-> int(s)[1]], <<>>)

\* amount = float(input(...)); update_expense(...); print
InputAmountUpdate ==
    /\ pc = "upd_amount"
    /\ UNCHANGED choice
    /\ \E s \in AmountInputs :
        IF float(s) = <<>> THEN Raise("ValueError")
        ELSE /\ update_expense(locals.id, locals.date, locals.category,
                               locals.description, float(s)[1])
             /\ Looped(<<"update_expense", locals.id, locals.date,
                         locals.category, locals.description, float(s)[1]>>)
             /\ out' = <<"Expense updated successfully.">>

\* month = input(...).strip() inside monthly_expense(), and the rest of it
InputMonth ==
    /\ pc = "month"
    /\ UNCHANGED choice
    /\ \E line \in MonthInputs :
        /\ monthly_expense(line)
        /\ Looped(<<"monthly_expense", strip(line)>>)

\* The script is run again on the same expenses.db
Rerun ==
    /\ pc \in {"exited", "crashed"}
    /\ pc' = "start"
    /\ choice' = "unbound"
    /\ err' = "none"
    /\ locals' = <<>>
    /\ out' = <<>>
    /\ call' = <<>>
    /\ NoSession
    /\ UNCHANGED <<db, padYear>>

Next ==
    \/ Start
    \/ ChooseAdd
    \/ ChooseView
    \/ ChooseTotal
    \/ ChooseDelete
    \/ ChooseUpdate
    \/ ChooseMonthly
    \/ ChoosePlot
    \/ ChooseExit
    \/ ChooseInvalid
    \/ InputDate
    \/ InputCategory
    \/ InputDescription
    \/ InputAmountAdd
    \/ InputIdDelete
    \/ InputIdUpdate
    \/ InputAmountUpdate
    \/ InputMonth
    \/ Rerun

Spec == Init /\ [][Next]_vars

----------------------------------------------------------------------------
(* Vocabulary of the properties *)

\* list(): what view_expenses fetches
list == SelectAll

ListedIds == [k \in 1..Len(list) |-> list[k].id]

StrictlyIncreasing(q) == \A i, j \in 1..Len(q) : i < j => q[i] < q[j]

RECURSIVE SumAmounts(_)
SumAmounts(rows) ==
    IF rows = <<>> THEN 0 ELSE Head(rows).amount + SumAmounts(Tail(rows))

StartsWith(x, m) == Len(x) >= Len(m) /\ \A k \in 1..Len(m) : x[k] = m[k]

RECURSIVE SumValues(_)
SumValues(f) ==
    IF DOMAIN f = {} THEN 0
    ELSE LET c == CHOOSE x \in DOMAIN f : TRUE
         IN  f[c] + SumValues([x \in DOMAIN f \ {c} |-> f[x]])

\* A calendar date written YYYY-MM-DD
IsIsoDate(x) ==
    /\ Len(x) = 10
    /\ x[5] = "-" /\ x[8] = "-"
    /\ \A k \in {1, 2, 3, 4, 6, 7, 9, 10} : IsDigit(x[k])
    /\ DigitsToNat(SubSeq(x, 1, 4)) >= 1
    /\ DigitsToNat(SubSeq(x, 6, 7)) \in 1..12
    /\ DigitsToNat(SubSeq(x, 9, 10)) >= 1
    /\ DigitsToNat(SubSeq(x, 9, 10)) <=
           DaysInMonth(DigitsToNat(SubSeq(x, 1, 4)), DigitsToNat(SubSeq(x, 6, 7)))

Aug01 == Str10("2", "0", "2", "5", "-", "0", "8", "-", "0", "1")

Sep01 == Str10("2", "0", "2", "5", "-", "0", "9", "-", "0", "1")

Is(printed, what) == printed # <<>> /\ printed[1] = what

----------------------------------------------------------------------------
(* C1 *)

\* C1: list() returns the live records in the order they were added; their ids
\* are pairwise distinct and strictly increasing in that order; every add
\* assigns an id greater than every id assigned before it, deleted ones
\* included.
C1_InsertionOrder ==
    /\ StrictlyIncreasing(issued)
    /\ ListedIds = SelectSeq(issued, LAMBDA x : x \in Ids)
    /\ StrictlyIncreasing(ListedIds)
    /\ Len(list) = Cardinality(Ids)
    /\ \A k \in 1..Len(list) : list[k] = Row(ListedIds[k])
    /\ (Is(out, "rows") => out[2] = list)

\* Two records were added, the first was deleted, and the listing was printed.
C1_Witness ==
    /\ issued = <<1, 2>>
    /\ Ids = {2}
    /\ Is(out, "rows")

----------------------------------------------------------------------------
(* C2 *)

\* C2: totalAll() is the arithmetic sum of amount over exactly the records now
\* in the store, and 0 on an empty store.
C2_TotalIsSum ==
    Is(call, "total_expense") =>
        /\ out = <<"Total expense", SumAmounts(list)>>
        /\ (Ids = {} => out[2] = 0)

\* The total was printed for a store that holds one record after a delete,
\* with a negative amount.
C2_Witness ==
    /\ Is(call, "total_expense")
    /\ Cardinality(Ids) = 1
    /\ seq = 2
    /\ out[2] < 0

----------------------------------------------------------------------------
(* C3 *)

\* C3: delete(id) on an existing id removes exactly that record and leaves
\* every other record unchanged; on an id that is not present (a second delete
\* of the same id included) it leaves the store unchanged and signals no error.
C3_DeleteFrame ==
    [][(pc = "del_id" /\ pc' = "menu") =>
          /\ Is(call', "delete_expense")
          /\ err' = "none"
          /\ Ids' = Ids \ {call'[2]}
          /\ \A i \in Ids' : table'[i] = table[i]
          /\ (call'[2] \in Ids => Cardinality(Ids') = Cardinality(Ids) - 1)
          /\ (call'[2] \notin Ids => table' = table)
          /\ seq' = seq]_vars

\* A delete of an id that was assigned and is gone, with another record left.
C3_Witness ==
    /\ Is(call, "delete_expense")
    /\ call[2] \in 1..seq
    /\ call[2] \notin Ids
    /\ Ids # {}

----------------------------------------------------------------------------
(* C4 *)

\* C4: update(id, ...) on an existing id replaces date, category, description
\* and amount of that record, keeps its id and its place in list(), and leaves
\* the number of records and every other record unchanged; on an id that is
\* not present it changes nothing and creates no record.
C4_UpdateFrame ==
    [][(pc = "upd_amount" /\ pc' = "menu") =>
          /\ Is(call', "update_expense")
          /\ call'[2] = locals.id
          /\ Ids' = Ids
          /\ ListedIds' = ListedIds
          /\ \A i \in Ids \ {locals.id} : table'[i] = table[i]
          /\ (locals.id \in Ids =>
                table'[locals.id] =
                    [date |-> locals.date, category |-> locals.category,
                     description |-> locals.description, amount |-> call'[6]])
          /\ (locals.id \notin Ids => table' = table)
          /\ seq' = seq]_vars

\* An update of the first of two records has written its arguments.
C4_Witness ==
    /\ Is(call, "update_expense")
    /\ call[2] = 1
    /\ Ids = {1, 2}
    /\ table[1] = [date |-> call[3], category |-> call[4],
                   description |-> call[5], amount |-> call[6]]
    /\ table[1] # table[2]

----------------------------------------------------------------------------
(* C5 *)

\* C5: every record in the store has a date that is a valid calendar date in
\* YYYY-MM-DD form, and a rejected date input changes nothing in the store
\* before the prompt is repeated.
C5_StoredDatesValid ==
    [][/\ \A i \in Ids' : IsIsoDate(table'[i].date)
       /\ (Is(out', "Invalid date") => table' = table /\ pc' = pc)]_vars

----------------------------------------------------------------------------
(* C6 *)

\* C6: totalForMonth(m) is the sum of amount over exactly the live records
\* whose first 7 date characters equal m, 0 when none matches; with records
\* 2025-08-01 (100) and 2025-09-01 (50), totalForMonth("2025-08") is 100.
C6_MonthlyIsSum ==
    Is(call, "monthly_expense") =>
        /\ out = <<"Total expense for", call[2],
                   SumAmounts(SelectSeq(list,
                       LAMBDA r : Len(call[2]) = 7 /\ StartsWith(r.date, call[2])))>>
        /\ ((\A i \in Ids : ~StartsWith(table[i].date, call[2])) => out[3] = 0)
        /\ ((/\ Len(list) = 2
             /\ list[1].date = Aug01 /\ list[1].amount = 100
             /\ list[2].date = Sep01 /\ list[2].amount = 50
             /\ call[2] = SubSeq(Aug01, 1, 7)) => out[3] = 100)

\* The example of the claim: 2025-08-01 (100), 2025-09-01 (50), month 2025-08.
C6_Witness ==
    /\ Is(call, "monthly_expense")
    /\ call[2] = SubSeq(Aug01, 1, 7)
    /\ Len(list) = 2
    /\ list[1].date = Aug01 /\ list[1].amount = 100
    /\ list[2].date = Sep01 /\ list[2].amount = 50
    /\ out[3] = 100

----------------------------------------------------------------------------
(* C7 *)

\* C7: categoryTotals() has exactly one entry per distinct category among the
\* live records, each the sum of amount over the records of that category; the
\* entries sum to totalAll(); the mapping is empty when the store is empty.
C7_CategoryTotals ==
    Is(call, "plot_category_expenses") =>
        /\ (Ids = {} => out = <<"No expenses to display.">>)
        /\ (Ids # {} =>
              /\ Is(out, "bars")
              /\ DOMAIN out[2] = {list[k].category : k \in 1..Len(list)}
              /\ \A c \in DOMAIN out[2] :
                    out[2][c] = SumAmounts(SelectSeq(list, LAMBDA r : r.category = c))
              /\ SumValues(out[2]) = SumAmounts(list))

\* Two records of one category with different amounts give one bar.
C7_Witness ==
    /\ Is(call, "plot_category_expenses")
    /\ Is(out, "bars")
    /\ Len(list) = 2
    /\ list[1].category = "Food" /\ list[2].category = "Food"
    /\ list[1].amount = 50 /\ list[2].amount = 100
    /\ out[2] = [c \in {"Food"} |-> 150]

----------------------------------------------------------------------------
(* C8 *)

\* C8: on a non-numeric amount or id the current menu iteration ends with a
\* reported error, the store is unchanged, and the menu loop goes on to the
\* next prompt.
C8_ParseErrorReturnsToMenu ==
    [][err' = "ValueError" => (pc' = "menu" /\ table' = table /\ seq' = seq)]_vars

----------------------------------------------------------------------------
(* C9 *)

MenuChoices == {"1", "2", "3", "4", "5", "6", "7", "8"}

\* C9: a choice other than "1" to "8" prints an error, leaves the store
\* unchanged and returns to the menu prompt; the loop ends normally only on
\* choice "8"; after every other choice that completes, the menu is shown
\* again.
C9_MenuLoop ==
    [][/\ (pc = "menu" /\ choice' \notin MenuChoices) =>
              /\ out' = <<"Invalid choice, try again.">>
              /\ pc' = "menu"
              /\ table' = table /\ seq' = seq
              /\ err' = "none"
       /\ (pc' = "exited" => pc = "menu" /\ choice' = "8")
       /\ (pc = "menu" /\ choice' = "8" => pc' = "exited")
       /\ (call' # <<>> => pc' = "menu")]_vars

\* " 1" was typed at the menu of a store with records.
C9_Witness ==
    /\ pc = "menu"
    /\ choice = " 1"
    /\ out = <<"Invalid choice, try again.">>
    /\ Ids # {}

----------------------------------------------------------------------------
(* C10 *)

\* C10: every store operation opens its own connection, executes exactly one
\* statement and closes the connection before returning, so no connection is
\* open while the program waits for input.
C10_NoOpenConnection ==
    /\ openConns = 0
    /\ (call = <<>> => dbLog = <<>>)
    /\ (call # <<>> =>
          /\ Head(dbLog) = "connect"
          /\ dbLog[Len(dbLog)] = "close"
          /\ Cardinality({k \in 1..Len(dbLog) : dbLog[k] = "execute"}) = 1
          /\ Cardinality({k \in 1..Len(dbLog) : dbLog[k] = "connect"}) = 1)

\* The menu prompt after an update.
C10_Witness ==
    /\ pc = "menu"
    /\ Is(call, "update_expense")
    /\ openConns = 0

====
